---------------------------- MODULE Spec2Model ----------------------------
(***************************************************************************)
(* Model of custom_components/donetick/todo.py: the Donetick to-do list    *)
(* entities of a Home Assistant integration.                               *)
(*                                                                         *)
(* Python values are represented as follows.                               *)
(*   Optional[T]   the empty set for None, the singleton {x} for x         *)
(*   str           a sequence of one-character strings when the code       *)
(*                 looks inside it (uids, label names), a TLA+ string      *)
(*                 when the code only passes it on (task names, colours)   *)
(*   datetime      a day of January 2024 (1..31), midnight                 *)
(*   list          a sequence                                              *)
(***************************************************************************)
EXTENDS Integers, Sequences, FiniteSets, TLC

VARIABLES
    data,       \* coordinator.data: None or the list of cached tasks
    entities,   \* the list entities async_setup_entry created
    pc,         \* "idle", or "done" when a handler has just returned or raised
    op,         \* the handler that ran last
    self,       \* the entity it ran on
    arg,        \* its arguments: [item, uids]
    pre,        \* coordinator.data when it was entered
    trace,      \* its calls on the API client and the coordinator and its writes to the item, in order
    raised,     \* whether it ended by raising
    item,       \* the TodoItem object it was given, as the handler left it
    ret         \* what it returned

vars == <<data, entities, pc, op, self, arg, pre, trace, raised, item, ret>>

---------------------------------------------------------------------------
(* Optional values and Python truthiness                                   *)

None == {}
Some(x) == {x}
The(o) == CHOOSE x \in o : TRUE

\* bool(x) of an Optional[int]: None and 0 are falsy
TruthyInt(o) == o # None /\ The(o) # 0

\* bool(x) of an Optional[str] or Optional[list]: None and the empty one are falsy
TruthySeq(o) == o # None /\ The(o) # <<>>

---------------------------------------------------------------------------
(* Strings as character sequences                                          *)

Digits == <<"0", "1", "2", "3", "4", "5", "6", "7", "8", "9">>

DigitChars == {Digits[i] : i \in 1..10}

DigitValue(c) == (CHOOSE i \in 1..10 : Digits[i] = c) - 1

\* ord(c) for the characters that occur in label names
Ord(c) ==
    CASE c = " " -> 32
      [] c \in DigitChars -> 48 + DigitValue(c)
      [] c = "H" -> 72
      [] c = "L" -> 76
      [] c = "W" -> 87
      [] c = "a" -> 97
      [] c = "b" -> 98
      [] c = "e" -> 101
      [] c = "h" -> 104
      [] c = "k" -> 107
      [] c = "l" -> 108
      [] c = "o" -> 111
      [] c = "w" -> 119

\* str.lower(), character by character
LowerChar(c) ==
    CASE c = "H" -> "h"
      [] c = "L" -> "l"
      [] c = "W" -> "w"
      [] OTHER -> c

Lower(s) == [i \in 1..Len(s) |-> LowerChar(s[i])]

RECURSIVE LStrip(_)
LStrip(s) == IF s # <<>> /\ Head(s) = " " THEN LStrip(Tail(s)) ELSE s

RECURSIVE RStrip(_)
RStrip(s) ==
    IF s # <<>> /\ s[Len(s)] = " " THEN RStrip(SubSeq(s, 1, Len(s) - 1)) ELSE s

\* str.strip()
Strip(s) == RStrip(LStrip(s))

\* a < b for Python strings: lexicographic by code point
RECURSIVE StrLess(_, _)
StrLess(a, b) ==
    IF b = <<>> THEN FALSE
    ELSE IF a = <<>> THEN TRUE
    ELSE IF Ord(Head(a)) # Ord(Head(b)) THEN Ord(Head(a)) < Ord(Head(b))
    ELSE StrLess(Tail(a), Tail(b))

\* str(n) for a non-negative integer
RECURSIVE StrNat(_)
StrNat(n) ==
    IF n < 10 THEN <<Digits[n + 1]>> ELSE StrNat(n \div 10) \o <<Digits[(n % 10) + 1]>>

\* str(n), "%s" % n and f"{n}" for an integer
StrInt(n) == IF n < 0 THEN <<"-">> \o StrNat(0 - n) ELSE StrNat(n)

RECURSIVE NatOfDigits(_, _)
NatOfDigits(s, acc) ==
    IF s = <<>> THEN acc ELSE NatOfDigits(Tail(s), 10 * acc + DigitValue(Head(s)))

AllDigits(s) == s # <<>> /\ \A i \in 1..Len(s) : s[i] \in DigitChars

\* int(s): None stands for the ValueError int() raises on text that is no integer
ParseInt(s) ==
    IF AllDigits(s) THEN Some(NatOfDigits(s, 0))
    ELSE IF s # <<>> /\ Head(s) = "-" /\ AllDigits(Tail(s))
         THEN Some(0 - NatOfDigits(Tail(s), 0))
    ELSE IF s # <<>> /\ Head(s) = "+" /\ AllDigits(Tail(s))
         THEN Some(NatOfDigits(Tail(s), 0))
    ELSE None

\* s.split("--")[0]: the text before the first "--", all of s when there is none
RECURSIVE SplitFirst(_)
SplitFirst(s) ==
    IF Len(s) < 2 THEN s
    ELSE IF s[1] = "-" /\ s[2] = "-" THEN <<>>
    ELSE <<Head(s)>> \o SplitFirst(Tail(s))

\* str(d) of a datetime: "2024-01-DD 00:00:00"
StrDate(d) ==
    <<"2", "0", "2", "4", "-", "0", "1", "-">>
        \o (IF d < 10 THEN <<"0">> ELSE <<>>) \o StrNat(d)
        \o <<" ", "0", "0", ":", "0", "0", ":", "0", "0">>

\* d.isoformat(): "2024-01-DDT00:00:00"
IsoFormat(d) ==
    <<"2", "0", "2", "4", "-", "0", "1", "-">>
        \o (IF d < 10 THEN <<"0">> ELSE <<>>) \o StrNat(d)
        \o <<"T", "0", "0", ":", "0", "0", ":", "0", "0">>

\* "%s" % x of an Optional[datetime]
StrOptDate(o) == IF o = None THEN <<"N", "o", "n", "e">> ELSE StrDate(The(o))

---------------------------------------------------------------------------
(* Labels                                                                  *)

\* _normalize_label_name
NormalizeLabelName(name) ==
    IF ~TruthySeq(name) THEN None
    ELSE LET normalized == Lower(Strip(The(name)))
         IN  IF normalized = <<>> THEN None ELSE Some(normalized)

\* _label_key
LabelKey(label_id, normalized_name) ==
    IF label_id # None THEN Some(<<"i", "d", "_">> \o StrInt(The(label_id)))
    ELSE IF TruthySeq(normalized_name)
         THEN Some(<<"n", "a", "m", "e", "_">> \o The(normalized_name))
    ELSE None

\* DonetickTask.label_names: the names of the structured labels, then the legacy names
LabelNames(task) ==
    LET v2 == SelectSeq(task.labels_v2, LAMBDA l : TruthySeq(l.name))
    IN  [i \in 1..Len(v2) |-> The(v2[i].name)] \o task.labels

\* DonetickTask.label_names_normalized
LabelNamesNormalized(task) ==
    LET usable == SelectSeq(LabelNames(task),
                            LAMBDA n : NormalizeLabelName(Some(n)) # None)
    IN  [i \in 1..Len(usable) |-> The(NormalizeLabelName(Some(usable[i])))]

\* label.name or f"Label {label.id}"
DisplayName(label) ==
    IF TruthySeq(label.name) THEN The(label.name)
    ELSE <<"L", "a", "b", "e", "l", " ">>
            \o (IF label.id = None THEN <<"N", "o", "n", "e">> ELSE StrInt(The(label.id)))

HasKey(label_map, key) == \E i \in 1..Len(label_map) : label_map[i].key = key

\* a later label with the same key overwrites the entry (last occurrence wins)
PutIfAbsentLast(label_map, key, desc) ==
    IF key = None THEN label_map
    ELSE [i \in 1..Len(label_map) |->
            IF label_map[i].key = The(key) THEN [key |-> The(key), desc |-> desc]
            ELSE label_map[i]]
         \o (IF HasKey(label_map, The(key)) THEN <<>>
             ELSE <<[key |-> The(key), desc |-> desc]>>)

\* if key not in label_map: label_map[key] = {...}   (a dict keeps insertion order)
PutIfAbsent(label_map, key, desc) ==
    IF key = None \/ HasKey(label_map, The(key)) THEN label_map
    ELSE Append(label_map, [key |-> The(key), desc |-> desc])

\* the body of "for label in task.labels_v2"
V2Descriptor(label) ==
    [label_id |-> label.id,
     label_name |-> DisplayName(label),
     normalized_name |-> NormalizeLabelName(label.name),
     color |-> label.color]

\* the body of "for name in task.label_names"
NameDescriptor(name) ==
    [label_id |-> None,
     label_name |-> name,
     normalized_name |-> NormalizeLabelName(Some(name)),
     color |-> None]

RECURSIVE CollectV2(_, _)
CollectV2(labels, label_map) ==
    IF labels = <<>> THEN label_map
    ELSE LET label == Head(labels)
             key == LabelKey(label.id, NormalizeLabelName(label.name))
         IN  CollectV2(Tail(labels), PutIfAbsent(label_map, key, V2Descriptor(label)))

RECURSIVE CollectNames(_, _)
CollectNames(names, label_map) ==
    IF names = <<>> THEN label_map
    ELSE LET name == Head(names)
             key == LabelKey(None, NormalizeLabelName(Some(name)))
         IN  CollectNames(Tail(names), PutIfAbsent(label_map, key, NameDescriptor(name)))

\* one iteration of "for task in tasks"
CollectTask(task, label_map) ==
    IF ~task.is_active THEN label_map
    ELSE IF task.labels_v2 # <<>> THEN CollectV2(task.labels_v2, label_map)
    ELSE IF LabelNames(task) # <<>> THEN CollectNames(LabelNames(task), label_map)
    ELSE label_map

RECURSIVE CollectTasks(_, _)
CollectTasks(tasks, label_map) ==
    IF tasks = <<>> THEN label_map
    ELSE CollectTasks(Tail(tasks), CollectTask(Head(tasks), label_map))

SortKey(desc) == Lower(desc.label_name)

\* x goes after every element whose key is not greater: the sort is stable
RECURSIVE InsertSorted(_, _)
InsertSorted(sorted, x) ==
    IF sorted = <<>> THEN <<x>>
    ELSE IF StrLess(SortKey(x), SortKey(Head(sorted))) THEN <<x>> \o sorted
    ELSE <<Head(sorted)>> \o InsertSorted(Tail(sorted), x)

RECURSIVE SortedFrom(_, _)
SortedFrom(todo, sorted) ==
    IF todo = <<>> THEN sorted
    ELSE SortedFrom(Tail(todo), InsertSorted(sorted, Head(todo)))

\* sorted(label_map.values(), key=lambda item: item["label_name"].lower())
SortedByName(descs) == SortedFrom(descs, <<>>)

\* _collect_label_descriptors
CollectLabelDescriptors(tasks) ==
    LET label_map == CollectTasks(tasks, <<>>)
    IN  SortedByName([i \in 1..Len(label_map) |-> label_map[i].desc])

---------------------------------------------------------------------------
(* List entities                                                           *)

NEEDS_ACTION == "needs_action"
COMPLETED == "completed"

\* DonetickAllTasksList.__init__
AllTasksList ==
    [kind |-> "all", member |-> None, label_id |-> None, label_name |-> <<>>,
     normalized_name |-> None, color |-> None]

\* DonetickAssigneeTasksList.__init__
AssigneeTasksList(member) ==
    [kind |-> "assignee", member |-> Some(member), label_id |-> None,
     label_name |-> <<>>, normalized_name |-> None, color |-> None]

\* DonetickLabelTasksList.__init__
LabelTasksList(desc) ==
    [kind |-> "label", member |-> None, label_id |-> desc.label_id,
     label_name |-> IF desc.label_name # <<>> THEN desc.label_name
                    ELSE <<"L", "a", "b", "e", "l">>,
     normalized_name |-> desc.normalized_name, color |-> desc.color]

\* hasattr(self, '_member')
HasMember(e) == e.member # None

\* client.async_get_circle_members(), as async_setup_entry received it
CircleMembers ==
    <<[user_id |-> 5, is_active |-> TRUE],
      [user_id |-> 7, is_active |-> TRUE],
      [user_id |-> 9, is_active |-> FALSE]>>

\* async_setup_entry with the unified, label and assignee lists all enabled
SetupEntities(coordinator_data) ==
    LET descs == CollectLabelDescriptors(
                     IF coordinator_data = None THEN <<>> ELSE The(coordinator_data))
        active == SelectSeq(CircleMembers, LAMBDA m : m.is_active)
    IN  <<AllTasksList>>
            \o [i \in 1..Len(descs) |-> LabelTasksList(descs[i])]
            \o [i \in 1..Len(active) |-> AssigneeTasksList(active[i])]

\* DonetickLabelTasksList._task_matches_label
TaskMatchesLabel(e, task) ==
    \/ /\ e.label_id # None
       /\ \E i \in 1..Len(task.labels_v2) : task.labels_v2[i].id = e.label_id
    \/ /\ TruthySeq(e.normalized_name)
       /\ \E i \in 1..Len(LabelNamesNormalized(task)) :
              LabelNamesNormalized(task)[i] = The(e.normalized_name)

\* the assignee filter without the comparison of assigned_to
FilterTasksActiveOnly(e, tasks) == SelectSeq(tasks, LAMBDA t : t.is_active)

\* _filter_tasks of the three list classes
FilterTasks(e, tasks) ==
    CASE e.kind = "all" -> SelectSeq(tasks, LAMBDA t : t.is_active)
      [] e.kind = "assignee" ->
            SelectSeq(tasks, LAMBDA t :
                t.is_active /\ t.assigned_to = Some(The(e.member).user_id))
      [] e.kind = "label" ->
            SelectSeq(tasks, LAMBDA t : t.is_active /\ TaskMatchesLabel(e, t))

\* DonetickTodoListBase.get_status
GetStatus(due_date, is_active) == IF ~is_active THEN COMPLETED ELSE NEEDS_ACTION

\* "%s--%s" % (task.id, task.next_due_date)
MakeUid(task) == StrInt(task.id) \o <<"-", "-">> \o StrOptDate(task.next_due_date)

\* the TodoItem built for one task
ToItem(e, task) ==
    [summary |-> task.name,
     uid |-> Some(MakeUid(task)),
     status |-> GetStatus(task.next_due_date, task.is_active),
     due |-> task.next_due_date,
     description |-> IF task.description = None THEN Some("") ELSE task.description]

\* todo_items with "if not self.coordinator.data: return None"
TodoItemsFalsy(e, coordinator_data) ==
    IF ~TruthySeq(coordinator_data) THEN None
    ELSE LET shown == SelectSeq(FilterTasks(e, The(coordinator_data)),
                                LAMBDA t : t.is_active)
         IN  Some([i \in 1..Len(shown) |-> ToItem(e, shown[i])])

\* DonetickTodoListBase.todo_items
TodoItems(e, coordinator_data) ==
    IF coordinator_data = None THEN None
    ELSE LET shown == SelectSeq(FilterTasks(e, The(coordinator_data)),
                                LAMBDA t : t.is_active)
         IN  Some([i \in 1..Len(shown) |-> ToItem(e, shown[i])])

\* int(uid[0]): the first character alone
ParseTaskIdFirstChar(uid) == ParseInt(SubSeq(uid, 1, 1))

\* int(uid.split("--")[0])
ParseTaskId(uid) == ParseInt(SplitFirst(uid))

---------------------------------------------------------------------------
(* The handlers.  Each returns [trace, raised, item]: the calls it made,   *)
(* whether it raised, and the TodoItem object as it left it.  The remote   *)
(* source's reply to a call is an input of the handler.                    *)

\* what a call on the API client can do: raise, or return a value
Raises == [raises |-> TRUE, success |-> FALSE, frequency_type |-> "", next_due_date |-> None]
Returns(success, frequency_type, next_due_date) ==
    [raises |-> FALSE, success |-> success, frequency_type |-> frequency_type,
     next_due_date |-> next_due_date]
Ok == Returns(TRUE, "", None)

\* await self.coordinator.async_refresh()
Refresh == [call |-> "async_refresh"]

\* item.status = ...; item.due = ...
SetItem(status, due) == [call |-> "item.set", status |-> status, due |-> due]

Outcome(t, r, i) == [trace |-> t, raised |-> r, item |-> i]

\* due_date = item.due.isoformat() if item.due else None
DueDate(i) == IF i.due = None THEN None ELSE Some(IsoFormat(The(i.due)))

\* _get_completion_user_id
GetCompletionUserId(e, i, coordinator_data) ==
    IF HasMember(e) THEN Some(The(e.member).user_id)
    ELSE LET task_id == The(ParseTaskId(The(i.uid)))
             tasks == IF TruthySeq(coordinator_data) THEN The(coordinator_data) ELSE <<>>
             hits == SelectSeq(tasks, LAMBDA t : t.id = task_id /\ TruthyInt(t.assigned_to))
         IN  IF hits # <<>> THEN Head(hits).assigned_to ELSE None

\* the property-update branch of async_update_todo_item, up to its refresh
UpdateProperties(task_id, i, reply) ==
    LET call == [call |-> "async_update_task", task_id |-> task_id, name |-> i.summary,
                 description |-> i.description, due_date |-> DueDate(i), reply |-> reply]
    IN  IF reply.raises THEN Outcome(<<call>>, TRUE, i)
        ELSE Outcome(<<call, Refresh>>, FALSE, i)

\* "await self.async_update_todo_item(item)": the nested update runs
NestedUpdateAwaited(e, i, coordinator_data) ==
    UpdateProperties(The(ParseTaskId(The(i.uid))), i, Ok).trace

\* "self.async_update_todo_item(item)" without await: the coroutine object is
\* created and dropped, so nothing of the nested update runs
NestedUpdate(e, i, coordinator_data) == <<>>

\* async_update_todo_item that goes on when the cache is empty
AsyncUpdateTodoItemNoGuard(e, i, coordinator_data, reply) ==
    LET task_id == The(ParseTaskId(The(i.uid)))
    IN  IF i.status = COMPLETED
        THEN Outcome(<<[call |-> "async_complete_task", task_id |-> task_id,
                        completed_by |-> GetCompletionUserId(e, i, coordinator_data),
                        reply |-> reply]>> \o (IF reply.raises THEN <<>> ELSE <<Refresh>>),
                     reply.raises, i)
        ELSE UpdateProperties(task_id, i, reply)

\* async_update_todo_item
AsyncUpdateTodoItem(e, i, coordinator_data, reply) ==
    IF ~TruthySeq(coordinator_data) THEN Outcome(<<>>, FALSE, i)
    ELSE IF i.uid = None \/ ParseTaskId(The(i.uid)) = None THEN Outcome(<<>>, TRUE, i)
    ELSE LET task_id == The(ParseTaskId(The(i.uid)))
         IN  IF i.status = COMPLETED
             THEN LET call == [call |-> "async_complete_task", task_id |-> task_id,
                               completed_by |-> GetCompletionUserId(e, i, coordinator_data),
                               reply |-> reply]
                  IN  IF reply.raises THEN Outcome(<<call>>, TRUE, i)
                      ELSE IF reply.frequency_type # "once"
                      THEN LET recurring == [i EXCEPT !.status = NEEDS_ACTION,
                                                      !.due = reply.next_due_date]
                           IN  Outcome(<<call, SetItem(NEEDS_ACTION, reply.next_due_date)>>
                                           \o NestedUpdate(e, recurring, coordinator_data)
                                           \o <<Refresh>>,
                                       FALSE, recurring)
                      ELSE Outcome(<<call, Refresh>>, FALSE, i)
             ELSE UpdateProperties(task_id, i, reply)

\* async_create_todo_item
AsyncCreateTodoItem(e, i, reply) ==
    LET call == [call |-> "async_create_task", name |-> i.summary,
                 description |-> i.description, due_date |-> DueDate(i),
                 created_by |-> IF HasMember(e) THEN Some(The(e.member).user_id) ELSE None,
                 reply |-> reply]
    IN  IF reply.raises THEN Outcome(<<call>>, TRUE, i)
        ELSE Outcome(<<call, Refresh>>, FALSE, i)

DeleteCall(uid, reply) ==
    [call |-> "async_delete_task", task_id |-> The(ParseTaskId(uid)), reply |-> reply]

\* the loop of async_delete_todo_items with the error logged and swallowed
RECURSIVE DeleteLoopSwallow(_, _)
DeleteLoopSwallow(uids, replies) ==
    IF uids = <<>> THEN Outcome(<<>>, FALSE, <<>>)
    ELSE IF ParseTaskId(Head(uids)) = None
         THEN DeleteLoopSwallow(Tail(uids), Tail(replies))
    ELSE LET rest == DeleteLoopSwallow(Tail(uids), Tail(replies))
         IN  Outcome(<<DeleteCall(Head(uids), Head(replies))>> \o rest.trace, FALSE, <<>>)

\* "for uid in uids" of async_delete_todo_items: a raise leaves the loop and the handler
RECURSIVE DeleteLoop(_, _)
DeleteLoop(uids, replies) ==
    IF uids = <<>> THEN Outcome(<<>>, FALSE, <<>>)
    ELSE IF ParseTaskId(Head(uids)) = None THEN Outcome(<<>>, TRUE, <<>>)
    ELSE LET call == DeleteCall(Head(uids), Head(replies))
         IN  IF Head(replies).raises THEN Outcome(<<call>>, TRUE, <<>>)
             ELSE LET rest == DeleteLoop(Tail(uids), Tail(replies))
                  IN  Outcome(<<call>> \o rest.trace, rest.raised, <<>>)

\* async_delete_todo_items with the refresh in a finally clause
AsyncDeleteTodoItemsFinally(e, uids, replies) ==
    LET loop == DeleteLoop(uids, replies)
    IN  Outcome(loop.trace \o <<Refresh>>, loop.raised, <<>>)

\* async_delete_todo_items
AsyncDeleteTodoItems(e, uids, replies) ==
    LET loop == DeleteLoop(uids, replies)
    IN  IF loop.raised THEN loop
        ELSE Outcome(loop.trace \o <<Refresh>>, FALSE, <<>>)

---------------------------------------------------------------------------
(* Bounds and the values the model draws from                              *)

MaxTasks == 3       \* tasks in a cached snapshot
MaxLabelTasks == 2  \* tasks in a snapshot of labelled tasks
MaxLabels == 2      \* structured labels on a task
MaxUids == 3        \* uids in one delete request

SeqsUpTo(S, n) == UNION {[1..k -> S] : k \in 0..n}

DistinctIds(tasks) ==
    \A i, j \in 1..Len(tasks) : tasks[i].id = tasks[j].id => i = j

Task(id, is_active, assigned_to, next_due_date, labels_v2, labels) ==
    [id |-> id,
     name |-> IF id = 1 THEN "Dishes" ELSE "Trash",
     description |-> IF id = 1 THEN Some("Wash up") ELSE None,
     is_active |-> is_active,
     next_due_date |-> next_due_date,
     assigned_to |-> assigned_to,
     labels_v2 |-> labels_v2,
     labels |-> labels]

\* snapshots of the remote source: the ids of a snapshot are distinct
Snapshots(tasks) == {s \in SeqsUpTo(tasks, MaxTasks) : DistinctIds(s)}

\* what the coordinator's update method can deliver: nothing, or a snapshot
Fetched(snapshots) == {None} \cup {Some(s) : s \in snapshots}

\* tasks for the handlers: every assignee case, all active, no labels
HandlerTasks ==
    {Task(id, TRUE, a, IF id = 1 THEN Some(1) ELSE None, <<>>, <<>>) :
        id \in {1, 12}, a \in {None, Some(0), Some(5)}}

HandlerSnapshots == Snapshots(HandlerTasks)

\* tasks for reading the items: every id, activity, assignee and due date case
ItemIds == {1, 12, 305}

ItemAttrs ==
    [is_active : BOOLEAN,
     assigned_to : {None, Some(5), Some(7)},
     next_due_date : {None, Some(1), Some(8)}]

ItemSnapshot(ids, attrs) ==
    [k \in 1..Len(ids) |->
        Task(ids[k], attrs[k].is_active, attrs[k].assigned_to, attrs[k].next_due_date,
             <<>>, <<>>)]

Label(id, name, color) == [id |-> id, name |-> name, color |-> color]

LabelPool ==
    {Label(Some(1), Some(<<"w", "k">>), Some("red")),
     Label(Some(1), Some(<<"H", "o">>), None),
     Label(Some(2), Some(<<"h", "o">>), Some("blue")),
     Label(None, Some(<<" ", "H", "o", " ">>), None),
     Label(Some(2), None, None),
     Label(None, Some(<<" ">>), None)}

LegacyNames == {<<>>, <<<<"W", "k">>>>}

\* tasks for the label lists: every activity and label case
LabelTasks ==
    {Task(1, act, None, None, v2, legacy) :
        act \in BOOLEAN, v2 \in SeqsUpTo(LabelPool, MaxLabels), legacy \in LegacyNames}

\* the k-th task of a label snapshot has the k-th of these ids
LabelTaskIds == <<1, 12, 305, 4096>>

LabelSnapshot(f) ==
    [k \in 1..Len(f) |->
        Task(LabelTaskIds[k], f[k].is_active, None, None, f[k].labels_v2, f[k].labels)]

NoItem == [summary |-> "", uid |-> None, status |-> NEEDS_ACTION, due |-> None,
           description |-> None]

NoArg == [item |-> NoItem, uids |-> <<>>]

\* the uids the lists have shown for the handler tasks
KnownUids == {MakeUid(t) : t \in HandlerTasks}

\* items the host passes to update: a property edit, or a completion
UpdateItems ==
    {[summary |-> sm, uid |-> Some(u), status |-> NEEDS_ACTION, due |-> d,
      description |-> ds] :
        sm \in {"Dishes", "Laundry"}, u \in KnownUids, d \in {None, Some(8)},
        ds \in {None, Some("Wash up")}}
    \cup
    {[summary |-> "Dishes", uid |-> Some(u), status |-> COMPLETED, due |-> d,
      description |-> None] : u \in KnownUids, d \in {None, Some(1)}}

\* items the host passes to create
CreateItems ==
    {[summary |-> sm, uid |-> None, status |-> NEEDS_ACTION, due |-> d,
      description |-> ds] :
        sm \in {"Dishes", "Laundry"}, d \in {None, Some(8)}, ds \in {None, Some("Wash up")}}

CompleteReplies ==
    {Raises} \cup {Returns(TRUE, f, d) : f \in {"once", "weekly"}, d \in {None, Some(8)}}

DeleteReplies == {Raises, Returns(TRUE, "", None), Returns(FALSE, "", None)}

CallReplies == {Raises, Ok}

---------------------------------------------------------------------------
(* The state machine                                                       *)

InitWith(coordinator_data) ==
    /\ data = coordinator_data
    /\ entities = SetupEntities(data)
    /\ pc = "idle"
    /\ op = "none"
    /\ self = AllTasksList
    /\ arg = NoArg
    /\ pre = None
    /\ trace = <<>>
    /\ raised = FALSE
    /\ item = NoItem
    /\ ret = None

Init(snapshots) == \E d \in Fetched(snapshots) : InitWith(d)

InitItems ==
    \/ InitWith(None)
    \/ \E n \in 0..MaxTasks : \E ids \in [1..n -> ItemIds] :
          /\ \A j, k \in 1..n : ids[j] = ids[k] => j = k
          /\ \E attrs \in [1..n -> ItemAttrs] : InitWith(Some(ItemSnapshot(ids, attrs)))

InitLabels ==
    \/ InitWith(None)
    \/ \E n \in 0..MaxLabelTasks : \E f \in [1..n -> LabelTasks] : InitWith(Some(LabelSnapshot(f)))

\* a handler has run on entity e: record what it did; each async_refresh it
\* awaited leaves coordinator.data as fetched, or as it was when the fetch failed
Ran(name, e, a, out, snapshots) ==
    /\ pc' = "done"
    /\ op' = name
    /\ self' = e
    /\ arg' = a
    /\ pre' = data
    /\ trace' = out.trace
    /\ raised' = out.raised
    /\ item' = out.item
    /\ ret' = None
    /\ data' \in IF \E k \in 1..Len(out.trace) : out.trace[k] = Refresh
                 THEN Fetched(snapshots) ELSE {data}
    /\ UNCHANGED entities

Create(snapshots) ==
    /\ pc = "idle"
    /\ \E k \in 1..Len(entities), i \in CreateItems, reply \in CallReplies :
          Ran("create", entities[k], [NoArg EXCEPT !.item = i],
              AsyncCreateTodoItem(entities[k], i, reply), snapshots)

Update(snapshots) ==
    /\ pc = "idle"
    /\ \E k \in 1..Len(entities), i \in UpdateItems :
          \E reply \in IF i.status = COMPLETED THEN CompleteReplies ELSE CallReplies :
              Ran("update", entities[k], [NoArg EXCEPT !.item = i],
                  AsyncUpdateTodoItem(entities[k], i, data, reply), snapshots)

Delete(snapshots) ==
    /\ pc = "idle"
    /\ \E k \in 1..Len(entities), uids \in SeqsUpTo(KnownUids, MaxUids) :
          \E replies \in [1..Len(uids) -> DeleteReplies] :
              LET out == AsyncDeleteTodoItems(entities[k], uids, replies)
              IN  Ran("delete", entities[k], [NoArg EXCEPT !.uids = uids],
                      [out EXCEPT !.item = NoItem], snapshots)

\* the host reads the todo_items property of an entity
ReadItems ==
    /\ pc = "idle"
    /\ \E k \in 1..Len(entities) :
          /\ self' = entities[k]
          /\ ret' = TodoItems(entities[k], data)
    /\ pc' = "done"
    /\ op' = "todo_items"
    /\ pre' = data
    /\ UNCHANGED <<data, entities, arg, trace, raised, item>>

\* the label descriptors of the current snapshot, as async_setup_entry computes them
CollectLabels ==
    /\ pc = "idle"
    /\ pc' = "done"
    /\ op' = "collect"
    /\ pre' = data
    /\ ret' = Some(CollectLabelDescriptors(IF data = None THEN <<>> ELSE The(data)))
    /\ UNCHANGED <<data, entities, self, arg, trace, raised, item>>

\* the coordinator's periodic poll
Poll(snapshots) ==
    /\ pc = "idle"
    /\ data' \in Fetched(snapshots)
    /\ UNCHANGED <<entities, pc, op, self, arg, pre, trace, raised, item, ret>>

\* the host has taken the result; the entity waits for the next request
Return ==
    /\ pc = "done"
    /\ pc' = "idle"
    /\ op' = "none"
    /\ self' = AllTasksList
    /\ arg' = NoArg
    /\ pre' = None
    /\ trace' = <<>>
    /\ raised' = FALSE
    /\ item' = NoItem
    /\ ret' = None
    /\ UNCHANGED <<data, entities>>

\* the mutation handlers
Next ==
    \/ Create(HandlerSnapshots)
    \/ Update(HandlerSnapshots)
    \/ Delete(HandlerSnapshots)
    \/ Poll(HandlerSnapshots)
    \/ Return

Spec == Init(HandlerSnapshots) /\ [][Next]_vars

\* reading the items of the unified and the assignee lists
NextItems == ReadItems \/ Return

SpecItems == InitItems /\ [][NextItems]_vars

\* the label lists and the label descriptors
NextLabels == ReadItems \/ CollectLabels \/ Return

SpecLabels == InitLabels /\ [][NextLabels]_vars

---------------------------------------------------------------------------
(* Properties of the mutation handlers (specification Spec)                *)

RemoteCallNames ==
    {"async_create_task", "async_update_task", "async_complete_task", "async_delete_task"}

RemoteCalls == SelectSeq(trace, LAMBDA ev : ev.call \in RemoteCallNames)

RefreshRequests == SelectSeq(trace, LAMBDA ev : ev = Refresh)

HandlerDone(name) == pc = "done" /\ op = name

MutationDone == pc = "done" /\ op \in {"create", "update", "delete"}

\* the id of the task a known uid was built from
TaskIdOfUid(uid) == (CHOOSE t \in HandlerTasks : MakeUid(t) = uid).id

\* C1 as stated: every mutation, failed or not, ends with a cache-refresh request.
C1_RefreshAlways ==
    MutationDone => (trace # <<>> /\ trace[Len(trace)] = Refresh)

\* C1 amended: a mutation whose remote calls all returned ends with exactly one
\* cache-refresh request, its last step; a mutation in which a remote call raised
\* requests none, also when earlier deletions of the same request succeeded; and an
\* update entered with the cache absent or empty requests none.
C1_RefreshOnSuccessOnly ==
    MutationDone =>
        IF raised \/ (op = "update" /\ ~TruthySeq(pre))
        THEN RefreshRequests = <<>>
        ELSE /\ Len(RefreshRequests) = 1
             /\ trace[Len(trace)] = Refresh
             /\ \A k \in 1..Len(RemoteCalls) : ~RemoteCalls[k].reply.raises

\* a delete of two or more uids whose first deletion succeeded and whose second raised
C1_Witness ==
    /\ HandlerDone("delete")
    /\ Len(arg.uids) >= 2
    /\ Len(trace) = 2
    /\ trace[1].call = "async_delete_task" /\ ~trace[1].reply.raises /\ trace[1].reply.success
    /\ trace[2].call = "async_delete_task" /\ trace[2].reply.raises
    /\ raised

\* C2: delete sends the uids' task ids one at a time in list order; the first remote
\* deletion that raises ends the request: the earlier deletions have been made and
\* nothing undoes them, no later uid is attempted, and the error reaches the caller.
C2_DeleteInOrderAbortOnError ==
    HandlerDone("delete") =>
        LET n == Len(RemoteCalls)
        IN  /\ n <= Len(arg.uids)
            /\ \A k \in 1..n :
                  /\ trace[k].call = "async_delete_task"
                  /\ trace[k].task_id = TaskIdOfUid(arg.uids[k])
            /\ \A k \in 1..Len(trace) : trace[k].call \in {"async_delete_task", "async_refresh"}
            /\ \A k \in 1..n : trace[k].reply.raises => (k = n /\ raised)
            /\ raised => (n >= 1 /\ trace[n].reply.raises /\ Len(trace) = n)
            /\ ~raised => n = Len(arg.uids)

\* three uids, the second deletion raised: one deletion made, the third never attempted
C2_Witness ==
    /\ HandlerDone("delete")
    /\ Len(arg.uids) = 3
    /\ arg.uids[1] # arg.uids[2]
    /\ Len(trace) = 2
    /\ ~trace[1].reply.raises
    /\ trace[2].reply.raises
    /\ raised

\* the completing user the claim C3 prescribes
C3_ExpectedUser ==
    IF self.kind = "assignee" THEN Some(The(self.member).user_id)
    ELSE LET tasks == IF pre = None THEN <<>> ELSE The(pre)
             own == {tasks[k].assigned_to : k \in
                        {j \in 1..Len(tasks) :
                            /\ tasks[j].id = TaskIdOfUid(The(arg.item.uid))
                            /\ tasks[j].assigned_to # None}}
         IN  IF own # {} THEN The(own) ELSE None

\* C3: a completion is sent with the list's fixed assignee if the list is an assignee
\* list, else with the cached task's assigned_to whenever that is not null, else with
\* no user; the completion call is made in every case.
C3_CompletionUserPriority ==
    (HandlerDone("update") /\ arg.item.status = COMPLETED /\ TruthySeq(pre)) =>
        /\ trace # <<>>
        /\ trace[1].call = "async_complete_task"
        /\ trace[1].completed_by = C3_ExpectedUser

\* C4: a completion answered with a frequency type other than "once" sets the item
\* to NeedsAction with the returned next due date, before the refresh request, and
\* the completion is the only remote call; answered with "once" it leaves the
\* item's status and due as they were.
C4_RecurringCompletion ==
    (/\ HandlerDone("update")
     /\ trace # <<>>
     /\ trace[1].call = "async_complete_task"
     /\ ~trace[1].reply.raises) =>
        LET reply == trace[1].reply
        IN  /\ Len(RemoteCalls) = 1
            /\ IF reply.frequency_type # "once"
               THEN /\ item.status = NEEDS_ACTION
                    /\ item.due = reply.next_due_date
                    /\ trace = <<trace[1], SetItem(NEEDS_ACTION, reply.next_due_date), Refresh>>
               ELSE /\ item.status = arg.item.status
                    /\ item.due = arg.item.due
                    /\ trace = <<trace[1], Refresh>>

\* a weekly task completed; the remote source answered with the next due date
C4_Witness ==
    /\ HandlerDone("update")
    /\ arg.item.status = COMPLETED
    /\ arg.item.due = Some(1)
    /\ trace # <<>>
    /\ trace[1].call = "async_complete_task"
    /\ trace[1].reply = Returns(TRUE, "weekly", Some(8))
    /\ item.status = NEEDS_ACTION
    /\ item.due = Some(8)

\* C10: an update entered with the cache absent or empty does nothing: no call, no
\* refresh, no error, item and cache as they were.  With a non-empty cache it makes
\* exactly one remote call: the completion iff the item's status is Completed,
\* otherwise the property update with the item's summary, description and due.
C10_UpdateGuardAndSingleCall ==
    HandlerDone("update") =>
        IF ~TruthySeq(pre)
        THEN trace = <<>> /\ ~raised /\ item = arg.item /\ data = pre
        ELSE /\ Len(RemoteCalls) = 1
             /\ trace[1] = RemoteCalls[1]
             /\ trace[1].task_id = TaskIdOfUid(The(arg.item.uid))
             /\ IF arg.item.status = COMPLETED
                THEN trace[1].call = "async_complete_task"
                ELSE /\ trace[1].call = "async_update_task"
                     /\ trace[1].name = arg.item.summary
                     /\ trace[1].description = arg.item.description
                     /\ trace[1].due_date =
                            IF arg.item.due = None THEN None
                            ELSE Some(IsoFormat(The(arg.item.due)))

\* a completion requested while the cache holds an empty snapshot
C10_Witness ==
    /\ HandlerDone("update")
    /\ pre = Some(<<>>)
    /\ arg.item.status = COMPLETED
    /\ trace = <<>>

---------------------------------------------------------------------------
(* Properties of the item lists (specification SpecItems)                  *)

\* the tasks claim C5 selects for the entity that was read
C5_Selected ==
    SelectSeq(The(pre), LAMBDA t :
        /\ t.is_active
        /\ self.kind = "assignee" => t.assigned_to = Some(The(self.member).user_id))

\* C5: the items of the unified list are the active tasks, those of an assignee
\* list the active tasks assigned to its member: one item per such task, in
\* snapshot order, each with status NeedsAction.
C5_ItemsAreSelectedTasks ==
    (HandlerDone("todo_items") /\ pre # None /\ self.kind \in {"all", "assignee"}) =>
        /\ ret # None
        /\ Len(The(ret)) = Len(C5_Selected)
        /\ \A k \in 1..Len(C5_Selected) :
              /\ The(ret)[k].summary = C5_Selected[k].name
              /\ ParseTaskId(The(The(ret)[k].uid)) = Some(C5_Selected[k].id)
              /\ The(ret)[k].due = C5_Selected[k].next_due_date
              /\ The(ret)[k].status = NEEDS_ACTION

\* an assignee list read over three tasks of which it shows exactly one, the others
\* being inactive or assigned to someone else
C5_Witness ==
    /\ HandlerDone("todo_items")
    /\ self.kind = "assignee"
    /\ pre # None
    /\ Len(The(pre)) = 3
    /\ ret # None
    /\ Len(The(ret)) = 1
    /\ \E k \in 1..Len(The(pre)) : ~The(pre)[k].is_active
    /\ \E k \in 1..Len(The(pre)) :
          The(pre)[k].is_active /\ The(pre)[k].assigned_to # Some(The(self.member).user_id)

\* C8: with no snapshot the item list is None, and with an empty snapshot it is the
\* empty list; neither read raises.
C8_AbsentIsNoneEmptyIsEmpty ==
    HandlerDone("todo_items") =>
        /\ ~raised
        /\ pre = None => ret = None
        /\ pre = Some(<<>>) => ret = Some(<<>>)
        /\ pre # None => ret # None

\* a list read while the coordinator holds no snapshot
C8_Witness == HandlerDone("todo_items") /\ pre = None /\ ret = None

\* the active tasks of the snapshot that was read, which are those the unified list shows
C9_Shown == SelectSeq(The(pre), LAMBDA t : t.is_active)

\* C9: the uid of a task's item is the task id, "--", and the next due date, whatever
\* else the snapshot holds, and the integer before the first "--" is the task id.
C9_UidRoundTrip ==
    (HandlerDone("todo_items") /\ pre # None /\ self.kind = "all") =>
        /\ Len(The(ret)) = Len(C9_Shown)
        /\ \A k \in 1..Len(C9_Shown) :
              LET t == C9_Shown[k]
                  uid == The(The(ret)[k].uid)
              IN  /\ uid = StrInt(t.id) \o <<"-", "-">> \o StrOptDate(t.next_due_date)
                  /\ ParseTaskId(uid) = Some(t.id)

\* items of tasks with ids of two and three digits, one with a due date, one without
C9_Witness ==
    /\ HandlerDone("todo_items")
    /\ self.kind = "all"
    /\ ret # None
    /\ Len(The(ret)) = 2
    /\ The(The(ret)[1].uid) = StrInt(12) \o <<"-", "-">> \o StrDate(8)
    /\ The(The(ret)[2].uid) = StrInt(305) \o <<"-", "-", "N", "o", "n", "e">>

---------------------------------------------------------------------------
(* Properties of the label lists (specification SpecLabels)                *)

\* a legacy label name as a label: no id, no color
NameAsLabel(name) == Label(None, Some(name), None)

\* every label a task carries: the structured ones, then the legacy names
C6_Labels(task) ==
    task.labels_v2 \o [k \in 1..Len(task.labels) |-> NameAsLabel(task.labels[k])]

\* the identity precedence of claim C6: ids decide when both sides have one
C6_SameLabel(e, label) ==
    IF e.label_id # None /\ label.id # None THEN e.label_id = label.id
    ELSE /\ e.normalized_name # None
         /\ NormalizeLabelName(label.name) = e.normalized_name

C6_Selected ==
    SelectSeq(The(pre), LAMBDA t :
        t.is_active /\ \E k \in 1..Len(C6_Labels(t)) : C6_SameLabel(self, C6_Labels(t)[k]))

\* C6: a label list shows an active task iff one of its labels is the list's label:
\* by id when both have an id, whatever their names; by normalized name only when
\* an id is missing.
C6_LabelIdentity ==
    (HandlerDone("todo_items") /\ pre # None /\ self.kind = "label") =>
        /\ ret # None
        /\ Len(The(ret)) = Len(C6_Selected)
        /\ \A k \in 1..Len(C6_Selected) :
              ParseTaskId(The(The(ret)[k].uid)) = Some(C6_Selected[k].id)

\* the labels _collect_label_descriptors reads from a task: the structured labels
\* when the task has any, else its label names
C7_Labels(task) ==
    IF task.labels_v2 # <<>> THEN task.labels_v2
    ELSE [k \in 1..Len(LabelNames(task)) |-> NameAsLabel(LabelNames(task)[k])]

RECURSIVE C7_Flatten(_)
C7_Flatten(tasks) ==
    IF tasks = <<>> THEN <<>>
    ELSE (IF Head(tasks).is_active THEN C7_Labels(Head(tasks)) ELSE <<>>)
            \o C7_Flatten(Tail(tasks))

\* the labels of the active tasks, in snapshot order
C7_ActiveLabels == C7_Flatten(IF pre = None THEN <<>> ELSE The(pre))

C7_KeyOfLabel(label) == LabelKey(label.id, NormalizeLabelName(label.name))

C7_KeyOfDesc(desc) == LabelKey(desc.label_id, desc.normalized_name)

\* C7: the descriptors are one per distinct key among the labels of the active
\* tasks, each with the display name and color of the first label with its key,
\* sorted by lower-cased display name.
C7_CollectLabels ==
    HandlerDone("collect") =>
        LET descs == The(ret)
            labels == C7_ActiveLabels
            first(key) == CHOOSE k \in 1..Len(labels) :
                              /\ C7_KeyOfLabel(labels[k]) = key
                              /\ \A j \in 1..(k - 1) : C7_KeyOfLabel(labels[j]) # key
        IN  /\ \A k \in 1..Len(descs) : C7_KeyOfDesc(descs[k]) # None
            /\ \A j, k \in 1..Len(descs) :
                  C7_KeyOfDesc(descs[j]) = C7_KeyOfDesc(descs[k]) => j = k
            /\ {C7_KeyOfDesc(descs[k]) : k \in 1..Len(descs)}
                  = {C7_KeyOfLabel(labels[k]) : k \in 1..Len(labels)} \ {None}
            /\ \A k \in 1..Len(descs) :
                  LET label == labels[first(C7_KeyOfDesc(descs[k]))]
                  IN  /\ descs[k].label_id = label.id
                      /\ descs[k].label_name =
                            (IF TruthySeq(label.name) THEN The(label.name)
                             ELSE <<"L", "a", "b", "e", "l", " ">> \o StrInt(The(label.id)))
                      /\ descs[k].color = label.color
            /\ \A j, k \in 1..Len(descs) :
                  j < k => ~StrLess(Lower(descs[k].label_name), Lower(descs[j].label_name))

\* a snapshot whose inactive task has a label no active task has, and whose active
\* task has two labels with one id and different names and colors: one descriptor
C7_Witness ==
    /\ HandlerDone("collect")
    /\ pre # None
    /\ Len(The(pre)) = 2
    /\ ~The(pre)[1].is_active
    /\ The(pre)[1].labels_v2 = <<Label(Some(2), Some(<<"h", "o">>), Some("blue"))>>
    /\ The(pre)[2].is_active
    /\ The(pre)[2].labels_v2 = <<Label(Some(1), Some(<<"w", "k">>), Some("red")),
                                 Label(Some(1), Some(<<"H", "o">>), None)>>
    /\ Len(The(ret)) = 1
    /\ The(ret)[1].label_name = <<"w", "k">>
    /\ The(ret)[1].color = Some("red")

=============================================================================
